---- MODULE Spec2Model ----
(***************************************************************************)
(* RBAC permission checks of engine/apps/api/permissions/__init__.py:      *)
(* the permission identifiers, the evaluator has_permissions, the action   *)
(* resolver _get_view_action and the two gates of RBACPermission.          *)
(*                                                                         *)
(* Python values are modelled as follows.  A str is a TLA+ string.  A list *)
(* or tuple is a sequence.  A dict is the sequence of its items in         *)
(* insertion order, each item a record [key, value].  An object is a       *)
(* record whose field attrs is the set of attribute names the object       *)
(* actually has (getattr with a default and hasattr read it).  The outcome *)
(* of a call is a record [kind, value]: kind "return" with the returned    *)
(* value (True and False are the strings "True" and "False", so that a     *)
(* policy returning something that is not a bool can be told apart), or    *)
(* kind "raise" with the name of the exception.                            *)
(***************************************************************************)
EXTENDS Integers, Sequences, FiniteSets, TLC

VARIABLES
    call,       \* the call being evaluated: its name and, for has_permissions, its two lists
    users,      \* the principals: users[u].permissions is the granted list of u
    request,    \* the request object (attributes user, method)
    view,       \* the handler object (attributes action, rbac_permissions, rbac_object_permissions)
    given,      \* how the handler was built: the arguments given to its constructor
    obj,        \* the target object of an object-level check
    invoked,    \* the policies whose has_object_permission ran during the call, in order
    result,     \* the outcome of the call, or Pending
    dispatch,   \* the progress of a request through dispatch: stage, gate outcome, handler, status
    inflight    \* the evaluations of several requests under way at once, each with its outcome

vars == <<call, users, request, view, given, obj, invoked, result, dispatch, inflight>>

----------------------------------------------------------------------------
(* Bounds of the model *)

MaxGranted == 2

MaxRequired == 2

MaxPolicyEntries == 2

----------------------------------------------------------------------------
(* Module constants and enumerations *)

ACTION_PREFIX == "grafana-oncall-app"

RBAC_PERMISSIONS_ATTR == "rbac_permissions"

RBAC_OBJECT_PERMISSIONS_ATTR == "rbac_object_permissions"

Resources ==
    [ ALERT_GROUPS          |-> "alert-groups",
      INTEGRATIONS          |-> "integrations",
      ESCALATION_CHAINS     |-> "escalation-chains",
      SCHEDULES             |-> "schedules",
      CHATOPS               |-> "chatops",
      OUTGOING_WEBHOOKS     |-> "outgoing-webhooks",
      MAINTENANCE           |-> "maintenance",
      API_KEYS              |-> "api-keys",
      NOTIFICATION_SETTINGS |-> "notification-settings",
      USER_SETTINGS         |-> "user-settings",
      OTHER_SETTINGS        |-> "other-settings",
      _IMPOSSIBLE_TESTING   |-> "impossible-testing" ]

Actions ==
    [ READ                |-> "read",
      WRITE               |-> "write",
      ADMIN               |-> "admin",
      _IMPOSSIBLE_TESTING |-> "impossible-testing" ]

(* _generate_permission_string as it would be without the "." after the prefix *)
_generate_permission_string_undotted(resource, action, ignore_prefix) ==
    (IF ignore_prefix THEN "" ELSE ACTION_PREFIX)
        \o Resources[resource] \o ":" \o Actions[action]

(* a composition that leaves the action out *)
_generate_permission_string_without_action(resource, action, ignore_prefix) ==
    IF ignore_prefix
    THEN Resources[resource]
    ELSE ACTION_PREFIX \o "." \o Resources[resource]

_generate_permission_string(resource, action, ignore_prefix) ==
    LET with_prefix == ACTION_PREFIX \o "."
    IN  (IF ignore_prefix THEN "" ELSE with_prefix)
            \o Resources[resource] \o ":" \o Actions[action]

(* RBACPermission.Permissions: member name |-> member value *)
Permissions ==
    [ ALERT_GROUPS_READ           |-> _generate_permission_string("ALERT_GROUPS", "READ", FALSE),
      ALERT_GROUPS_WRITE          |-> _generate_permission_string("ALERT_GROUPS", "WRITE", FALSE),
      INTEGRATIONS_READ           |-> _generate_permission_string("INTEGRATIONS", "READ", FALSE),
      INTEGRATIONS_WRITE          |-> _generate_permission_string("INTEGRATIONS", "WRITE", FALSE),
      ESCALATION_CHAINS_READ      |-> _generate_permission_string("ESCALATION_CHAINS", "READ", FALSE),
      ESCALATION_CHAINS_WRITE     |-> _generate_permission_string("ESCALATION_CHAINS", "WRITE", FALSE),
      SCHEDULES_READ              |-> _generate_permission_string("SCHEDULES", "READ", FALSE),
      SCHEDULES_WRITE             |-> _generate_permission_string("SCHEDULES", "WRITE", FALSE),
      CHATOPS_READ                |-> _generate_permission_string("CHATOPS", "READ", FALSE),
      CHATOPS_WRITE               |-> _generate_permission_string("CHATOPS", "WRITE", FALSE),
      OUTGOING_WEBHOOKS_READ      |-> _generate_permission_string("OUTGOING_WEBHOOKS", "READ", FALSE),
      OUTGOING_WEBHOOKS_WRITE     |-> _generate_permission_string("OUTGOING_WEBHOOKS", "WRITE", FALSE),
      MAINTENANCE_READ            |-> _generate_permission_string("MAINTENANCE", "READ", FALSE),
      MAINTENANCE_WRITE           |-> _generate_permission_string("MAINTENANCE", "WRITE", FALSE),
      API_KEYS_READ               |-> _generate_permission_string("API_KEYS", "READ", FALSE),
      API_KEYS_WRITE              |-> _generate_permission_string("API_KEYS", "WRITE", FALSE),
      NOTIFICATION_SETTINGS_READ  |-> _generate_permission_string("NOTIFICATION_SETTINGS", "READ", FALSE),
      NOTIFICATION_SETTINGS_WRITE |-> _generate_permission_string("NOTIFICATION_SETTINGS", "WRITE", FALSE),
      USER_SETTINGS_READ          |-> _generate_permission_string("USER_SETTINGS", "READ", FALSE),
      USER_SETTINGS_WRITE         |-> _generate_permission_string("USER_SETTINGS", "WRITE", FALSE),
      USER_SETTINGS_ADMIN         |-> _generate_permission_string("USER_SETTINGS", "ADMIN", FALSE),
      OTHER_SETTINGS_READ         |-> _generate_permission_string("OTHER_SETTINGS", "READ", FALSE),
      OTHER_SETTINGS_WRITE        |-> _generate_permission_string("OTHER_SETTINGS", "WRITE", FALSE),
      TESTING                     |-> _generate_permission_string("_IMPOSSIBLE_TESTING",
                                                                  "_IMPOSSIBLE_TESTING", FALSE) ]

(* GrafanaPermission(action=...) *)
GrafanaPermission(action) == [action |-> action]

(* the member names of RBACPermission.Permissions in definition order *)
PermissionNames ==
    << "ALERT_GROUPS_READ", "ALERT_GROUPS_WRITE",
       "INTEGRATIONS_READ", "INTEGRATIONS_WRITE",
       "ESCALATION_CHAINS_READ", "ESCALATION_CHAINS_WRITE",
       "SCHEDULES_READ", "SCHEDULES_WRITE",
       "CHATOPS_READ", "CHATOPS_WRITE",
       "OUTGOING_WEBHOOKS_READ", "OUTGOING_WEBHOOKS_WRITE",
       "MAINTENANCE_READ", "MAINTENANCE_WRITE",
       "API_KEYS_READ", "API_KEYS_WRITE",
       "NOTIFICATION_SETTINGS_READ", "NOTIFICATION_SETTINGS_WRITE",
       "USER_SETTINGS_READ", "USER_SETTINGS_WRITE", "USER_SETTINGS_ADMIN",
       "OTHER_SETTINGS_READ", "OTHER_SETTINGS_WRITE",
       "TESTING" >>

(* iterating an Enum: the members in definition order; a name whose value *)
(* an earlier name already has is an alias and is skipped                 *)
RECURSIVE enum_members(_, _)
enum_members(names, seen) ==
    IF names = <<>>
    THEN <<>>
    ELSE IF Permissions[Head(names)] \in seen
         THEN enum_members(Tail(names), seen)
         ELSE <<Head(names)>> \o enum_members(Tail(names), seen \cup {Permissions[Head(names)]})

(* ALL_PERMISSIONS as it would be without the filter *)
ALL_PERMISSIONS_unfiltered == enum_members(PermissionNames, {})

ALL_PERMISSIONS ==
    SelectSeq(enum_members(PermissionNames, {}), LAMBDA permission : permission # "TESTING")

----------------------------------------------------------------------------
(* Outcomes of a call *)

Pending == [kind |-> "pending", value |-> ""]

Return(value) == [kind |-> "return", value |-> value]

Raise(exception) == [kind |-> "raise", value |-> exception]

PyBool(b) == IF b THEN "True" ELSE "False"

----------------------------------------------------------------------------
(* has_permissions *)

(* the inner loop as it would be if a record matched by the plugin prefix *)
RECURSIVE granted_permission_by_prefix(_, _)
granted_permission_by_prefix(user_permissions, required_permission) ==
    IF user_permissions = <<>>
    THEN <<>>
    ELSE LET action == Head(user_permissions).action
         IN  IF /\ Len(action) >= Len(ACTION_PREFIX)
                /\ SubSeq(action, 1, Len(ACTION_PREFIX)) = ACTION_PREFIX
             THEN <<Head(user_permissions)>>
             ELSE granted_permission_by_prefix(Tail(user_permissions), required_permission)

(* the text of s before its first ":" *)
RECURSIVE before_colon(_, _)
before_colon(s, i) ==
    IF i > Len(s) \/ SubSeq(s, i, i) = ":"
    THEN SubSeq(s, 1, i - 1)
    ELSE before_colon(s, i + 1)

(* the inner loop as it would be if any permission on the resource matched *)
RECURSIVE granted_permission_by_resource(_, _)
granted_permission_by_resource(user_permissions, required_permission) ==
    IF user_permissions = <<>>
    THEN <<>>
    ELSE IF before_colon(Head(user_permissions).action, 1)
                = before_colon(Permissions[required_permission], 1)
         THEN <<Head(user_permissions)>>
         ELSE granted_permission_by_resource(Tail(user_permissions), required_permission)

(* the inner loop: the first record of user_permissions whose "action" is *)
(* the required member's value, as a list of at most one record           *)
RECURSIVE granted_permission(_, _)
granted_permission(user_permissions, required_permission) ==
    IF user_permissions = <<>>
    THEN <<>>
    ELSE IF Head(user_permissions).action = Permissions[required_permission]
         THEN <<Head(user_permissions)>>
         ELSE granted_permission(Tail(user_permissions), required_permission)

(* has_permissions as it would be if one granted requirement were enough *)
has_permissions_any(user_permissions, required_permissions) ==
    \/ required_permissions = <<>>
    \/ \E i \in 1..Len(required_permissions) :
          granted_permission(user_permissions, required_permissions[i]) # <<>>

(* has_permissions as it would be if the flag started False and a match set it *)
has_permissions_needs_match(user_permissions, required_permissions) ==
    /\ required_permissions # <<>>
    /\ \A i \in 1..Len(required_permissions) :
          granted_permission(user_permissions, required_permissions[i]) # <<>>

(* has_permissions as it would be if a granted record outside the required *)
(* list counted against the principal                                       *)
has_permissions_and_no_more(user_permissions, required_permissions) ==
    /\ \A i \in 1..Len(required_permissions) :
          granted_permission(user_permissions, required_permissions[i]) # <<>>
    /\ \A j \in 1..Len(user_permissions) :
          \E i \in 1..Len(required_permissions) :
             user_permissions[j].action = Permissions[required_permissions[i]]

(* the outer loop: stops with False at the first required member that has *)
(* no granted record                                                      *)
RECURSIVE has_permissions(_, _)
has_permissions(user_permissions, required_permissions) ==
    IF required_permissions = <<>>
    THEN TRUE
    ELSE IF granted_permission(user_permissions, Head(required_permissions)) = <<>>
         THEN FALSE
         ELSE has_permissions(user_permissions, Tail(required_permissions))

----------------------------------------------------------------------------
(* Python helpers *)

(* str.lower() on one character *)
lower_char(c) ==
    CASE c = "A" -> "a" [] c = "B" -> "b" [] c = "C" -> "c" [] c = "D" -> "d"
      [] c = "E" -> "e" [] c = "F" -> "f" [] c = "G" -> "g" [] c = "H" -> "h"
      [] c = "I" -> "i" [] c = "J" -> "j" [] c = "K" -> "k" [] c = "L" -> "l"
      [] c = "M" -> "m" [] c = "N" -> "n" [] c = "O" -> "o" [] c = "P" -> "p"
      [] c = "Q" -> "q" [] c = "R" -> "r" [] c = "S" -> "s" [] c = "T" -> "t"
      [] c = "U" -> "u" [] c = "V" -> "v" [] c = "W" -> "w" [] c = "X" -> "x"
      [] c = "Y" -> "y" [] c = "Z" -> "z" [] OTHER -> c

(* str.lower() *)
RECURSIVE lower(_)
lower(s) ==
    IF Len(s) = 0
    THEN ""
    ELSE lower_char(SubSeq(s, 1, 1)) \o lower(SubSeq(s, 2, Len(s)))

(* dict.get(key, default) *)
RECURSIVE dict_get(_, _, _)
dict_get(d, key, default) ==
    IF d = <<>>
    THEN default
    ELSE IF Head(d).key = key
         THEN Head(d).value
         ELSE dict_get(Tail(d), key, default)

(* x in actions, for a list or tuple of str *)
contains(actions, x) == \E i \in 1..Len(actions) : actions[i] = x

----------------------------------------------------------------------------
(* _get_view_action: the outcome is the action, or AttributeError when the *)
(* attribute it reads is not there                                         *)

(* _get_view_action as it would be if it lower-cased the action of a ViewSet too *)
_get_view_action_lowering_both(req, v) ==
    IF v.kind = "ViewSet"
    THEN IF "action" \in v.attrs THEN Return(lower(v.action)) ELSE Raise("AttributeError")
    ELSE IF "method" \in req.attrs THEN Return(lower(req.method)) ELSE Raise("AttributeError")

_get_view_action(req, v) ==
    IF v.kind = "ViewSet"
    THEN IF "action" \in v.attrs THEN Return(v.action) ELSE Raise("AttributeError")
    ELSE IF "method" \in req.attrs THEN Return(lower(req.method)) ELSE Raise("AttributeError")

----------------------------------------------------------------------------
(* RBACPermission.has_permission *)

(* has_permission as it would be with getattr(view, RBAC_PERMISSIONS_ATTR, {}) *)
(* and no assertion                                                          *)
has_permission_unasserted(req, v) ==
    LET action == _get_view_action(req, v)
    IN  IF action.kind = "raise"
        THEN action
        ELSE IF "user" \notin req.attrs
        THEN Raise("AttributeError")
        ELSE Return(PyBool(has_permissions(users[req.user].permissions,
                                           dict_get(v.rbac_permissions, action.value, <<>>))))

(* has_permission as it would be if the table were read at request.method *)
(* as it comes, not at the resolved action                                *)
has_permission_raw_method(req, v) ==
    LET action == _get_view_action(req, v)
        key == IF v.kind = "ViewSet" THEN action.value ELSE req.method
    IN  IF action.kind = "raise"
        THEN action
        ELSE IF RBAC_PERMISSIONS_ATTR \notin v.attrs
        THEN Raise("AssertionError")
        ELSE IF "user" \notin req.attrs
        THEN Raise("AttributeError")
        ELSE Return(PyBool(has_permissions(users[req.user].permissions,
                                           dict_get(v.rbac_permissions, key, <<>>))))

(* has_permission as it would be if an action without entry were denied *)
has_permission_deny_unlisted(req, v) ==
    LET action == _get_view_action(req, v)
    IN  IF action.kind = "raise"
        THEN action
        ELSE IF RBAC_PERMISSIONS_ATTR \notin v.attrs
        THEN Raise("AssertionError")
        ELSE IF "user" \notin req.attrs
        THEN Raise("AttributeError")
        ELSE IF \A i \in 1..Len(v.rbac_permissions) : v.rbac_permissions[i].key # action.value
        THEN Return("False")
        ELSE Return(PyBool(has_permissions(users[req.user].permissions,
                                           dict_get(v.rbac_permissions, action.value, <<>>))))

(* has_permission as it would be if the assertion tested the truth value *)
(* of the table                                                         *)
has_permission_asserting_truthy(req, v) ==
    LET action == _get_view_action(req, v)
    IN  IF action.kind = "raise"
        THEN action
        ELSE IF RBAC_PERMISSIONS_ATTR \notin v.attrs \/ v.rbac_permissions = <<>>
        THEN Raise("AssertionError")
        ELSE IF "user" \notin req.attrs
        THEN Raise("AttributeError")
        ELSE Return(PyBool(has_permissions(users[req.user].permissions,
                                           dict_get(v.rbac_permissions, action.value, <<>>))))

(* a gate that lets every authenticated principal through *)
has_permission_authenticated_only(req, v) ==
    LET action == _get_view_action(req, v)
    IN  IF action.kind = "raise"
        THEN action
        ELSE IF RBAC_PERMISSIONS_ATTR \notin v.attrs
        THEN Raise("AssertionError")
        ELSE IF "user" \notin req.attrs
        THEN Raise("AttributeError")
        ELSE Return("True")

has_permission(req, v) ==
    LET action == _get_view_action(req, v)
    IN  IF action.kind = "raise"
        THEN action
        ELSE IF RBAC_PERMISSIONS_ATTR \notin v.attrs
        THEN Raise("AssertionError")
        ELSE IF "user" \notin req.attrs
        THEN Raise("AttributeError")
        ELSE Return(PyBool(has_permissions(users[req.user].permissions,
                                           dict_get(v.rbac_permissions, action.value, <<>>))))

----------------------------------------------------------------------------
(* Object-level policies.  A policy instance is a record: cls names its    *)
(* class, the other fields are what its constructor stored.                *)

(* the permission class of the tests, which answers a fixed value *)
MockedPermissionClass(response) ==
    [cls |-> "MockedPermissionClass", response |-> response, required_permissions |-> <<>>]

HasRBACPermissions(required_permissions) ==
    [cls |-> "HasRBACPermissions", response |-> "", required_permissions |-> required_permissions]

(* HasRBACPermissions.has_object_permission as it would be if it refused *)
(* to answer for a missing object                                        *)
HasRBACPermissions_needs_object(self, req, v, o) ==
    IF "user" \notin req.attrs
    THEN Raise("AttributeError")
    ELSE IF o.type = "NoneType"
    THEN Return("False")
    ELSE Return(PyBool(has_permissions(users[req.user].permissions, self.required_permissions)))

(* HasRBACPermissions.has_object_permission *)
HasRBACPermissions_has_object_permission(self, req, v, o) ==
    IF "user" \notin req.attrs
    THEN Raise("AttributeError")
    ELSE Return(PyBool(has_permissions(users[req.user].permissions, self.required_permissions)))

----------------------------------------------------------------------------
(* Objects.  A principal object is [type, id]; its granted list is kept in *)
(* users.  Any other object is a record of its type and its attributes.    *)

MockedUser(id) == [type |-> "MockedUser", id |-> id]

MockedSchedule(user) == [type |-> "MockedSchedule", user |-> user]

Thingy(schedule) == [type |-> "Thingy", schedule |-> schedule]

(* the attributes of an object that hold an object *)
attributes(o) == DOMAIN o \ {"type", "id"}

(* owner == request.user: the owner is the very principal of the request *)
is_user(owner, user) == owner.type = "MockedUser" /\ owner.id = user

(* the value an attribute walk ended in, or the failure of the walk *)
Found(o) == [ok |-> TRUE, value |-> o]

Missing == [ok |-> FALSE, value |-> [type |-> "NoneType"]]

(* the position of the first "." of s at or after i; 0 when there is none *)
RECURSIVE first_dot(_, _)
first_dot(s, i) ==
    IF i > Len(s)
    THEN 0
    ELSE IF SubSeq(s, i, i) = "." THEN i ELSE first_dot(s, i + 1)

(* name.split(".") *)
RECURSIVE split(_)
split(name) ==
    LET d == first_dot(name, 1)
    IN  IF d = 0
        THEN <<name>>
        ELSE <<SubSeq(name, 1, d - 1)>> \o split(SubSeq(name, d + 1, Len(name)))

(* the walk along the names, one getattr per name *)
RECURSIVE walk(_, _)
walk(o, names) ==
    IF names = <<>>
    THEN Found(o)
    ELSE IF Head(names) \in attributes(o)
         THEN walk(o[Head(names)], Tail(names))
         ELSE Missing

(* common.utils.getattrd(obj, name), called without a default *)
getattrd(o, name) == walk(o, split(name))

----------------------------------------------------------------------------
(* IsOwner, IsOwnerOrHasRBACPermissions *)

(* IsOwner(ownership_field); the optional field is <<>> for None *)
IsOwner(ownership_field) ==
    [ cls |-> "IsOwner", response |-> "", required_permissions |-> <<>>,
      ownership_field |-> ownership_field ]

(* IsOwner.has_object_permission as it would be if it compared the object *)
(* itself whatever the ownership field                                    *)
IsOwner_ignoring_field(self, req, v, o) ==
    IF "user" \notin req.attrs
    THEN Raise("AttributeError")
    ELSE Return(PyBool(is_user(o, req.user)))

(* IsOwner.has_object_permission as it would be if it called getattrd with *)
(* a default and so turned a failed walk into "not the owner"              *)
IsOwner_swallowing(self, req, v, o) ==
    LET owner == IF self.ownership_field = <<>>
                 THEN Found(o)
                 ELSE getattrd(o, self.ownership_field[1])
    IN  IF "user" \notin req.attrs
        THEN Raise("AttributeError")
        ELSE Return(PyBool(owner.ok /\ is_user(owner.value, req.user)))

(* IsOwner.has_object_permission *)
IsOwner_has_object_permission(self, req, v, o) ==
    LET owner == IF self.ownership_field = <<>>
                 THEN Found(o)
                 ELSE getattrd(o, self.ownership_field[1])
    IN  IF ~owner.ok
        THEN Raise("AttributeError")
        ELSE IF "user" \notin req.attrs
        THEN Raise("AttributeError")
        ELSE Return(PyBool(is_user(owner.value, req.user)))

(* IsOwnerOrHasRBACPermissions(required_permissions, ownership_field) *)
IsOwnerOrHasRBACPermissions(required_permissions, ownership_field) ==
    [ cls |-> "IsOwnerOrHasRBACPermissions", response |-> "", required_permissions |-> <<>>,
      IsOwner |-> IsOwner(ownership_field),
      HasRBACPermissions |-> HasRBACPermissions(required_permissions) ]

(* IsOwnerOrHasRBACPermissions.has_object_permission as it would be with *)
(* "and" for "or"                                                         *)
IsOwnerAndHasRBACPermissions_has_object_permission(self, req, v, o) ==
    LET owner == IsOwner_has_object_permission(self.IsOwner, req, v, o)
    IN  IF owner.kind = "raise" \/ owner # Return("True")
        THEN owner
        ELSE HasRBACPermissions_has_object_permission(self.HasRBACPermissions, req, v, o)

(* IsOwnerOrHasRBACPermissions.has_object_permission as it would be with *)
(* the RBAC check first and the ownership check only when that is false  *)
HasRBACPermissionsOrIsOwner_has_object_permission(self, req, v, o) ==
    LET permitted == HasRBACPermissions_has_object_permission(self.HasRBACPermissions, req, v, o)
    IN  IF permitted.kind = "raise" \/ permitted = Return("True")
        THEN permitted
        ELSE IsOwner_has_object_permission(self.IsOwner, req, v, o)

(* IsOwnerOrHasRBACPermissions.has_object_permission: a or b *)
IsOwnerOrHasRBACPermissions_has_object_permission(self, req, v, o) ==
    LET owner == IsOwner_has_object_permission(self.IsOwner, req, v, o)
    IN  IF owner.kind = "raise" \/ owner = Return("True")
        THEN owner
        ELSE HasRBACPermissions_has_object_permission(self.HasRBACPermissions, req, v, o)

(* PermissionClass.has_object_permission(request, view, obj) *)
PermissionClass_has_object_permission(self, req, v, o) ==
    CASE self.cls = "MockedPermissionClass" -> Return(self.response)
      [] self.cls = "HasRBACPermissions" -> HasRBACPermissions_has_object_permission(self, req, v, o)
      [] self.cls = "IsOwner" -> IsOwner_has_object_permission(self, req, v, o)
      [] self.cls = "IsOwnerOrHasRBACPermissions" ->
            IsOwnerOrHasRBACPermissions_has_object_permission(self, req, v, o)

----------------------------------------------------------------------------
(* RBACPermission.has_object_permission *)

(* the for loop as it would be if a later matching item replaced an earlier one *)
RECURSIVE last_match(_, _, _)
last_match(items, action, i) ==
    IF i > Len(items)
    THEN 0
    ELSE LET later == last_match(items, action, i + 1)
         IN  IF later # 0
             THEN later
             ELSE IF contains(items[i].value, action) THEN i ELSE 0

(* the for loop: the position of the first item whose actions contain the *)
(* action, counted from position i; 0 when the loop runs out of items     *)
RECURSIVE first_match(_, _, _)
first_match(items, action, i) ==
    IF i > Len(items)
    THEN 0
    ELSE IF contains(items[i].value, action)
         THEN i
         ELSE first_match(items, action, i + 1)

(* the scan of a truthy Object Policy Table, shared by the variants below: *)
(* unmatched is the outcome when no item lists the action                 *)
scan_policies(req, v, o, unmatched) ==
    LET action == _get_view_action(req, v)
    IN  IF action.kind = "raise"
        THEN [outcome |-> action, invoked |-> <<>>]
        ELSE LET i == first_match(v.rbac_object_permissions, action.value, 1)
             IN  IF i # 0
                 THEN [outcome |-> PermissionClass_has_object_permission(
                                       v.rbac_object_permissions[i].key, req, v, o),
                       invoked |-> <<i>>]
                 ELSE [outcome |-> unmatched, invoked |-> <<>>]

(* has_object_permission as it would be if it asserted rbac_permissions first *)
has_object_permission_asserting(req, v, o) ==
    IF RBAC_PERMISSIONS_ATTR \notin v.attrs
    THEN [outcome |-> Raise("AssertionError"), invoked |-> <<>>]
    ELSE IF RBAC_OBJECT_PERMISSIONS_ATTR \in v.attrs /\ v.rbac_object_permissions # <<>>
         THEN scan_policies(req, v, o, Return("False"))
         ELSE [outcome |-> Return("True"), invoked |-> <<>>]

(* has_object_permission as it would be if the loop ended in return True *)
has_object_permission_allow_unmatched(req, v, o) ==
    IF RBAC_OBJECT_PERMISSIONS_ATTR \in v.attrs /\ v.rbac_object_permissions # <<>>
    THEN scan_policies(req, v, o, Return("True"))
    ELSE [outcome |-> Return("True"), invoked |-> <<>>]

(* has_object_permission as it would be with "is not None" for the truth test *)
has_object_permission_is_not_none(req, v, o) ==
    IF RBAC_OBJECT_PERMISSIONS_ATTR \in v.attrs
    THEN scan_policies(req, v, o, Return("False"))
    ELSE [outcome |-> Return("True"), invoked |-> <<>>]

(* has_object_permission as it would be if the last line were return False *)
has_object_permission_deny_undeclared(req, v, o) ==
    IF RBAC_OBJECT_PERMISSIONS_ATTR \in v.attrs /\ v.rbac_object_permissions # <<>>
    THEN scan_policies(req, v, o, Return("False"))
    ELSE [outcome |-> Return("False"), invoked |-> <<>>]

(* the outcome of the call, and the positions of the items whose policy ran *)
has_object_permission(req, v, o) ==
    LET declared == RBAC_OBJECT_PERMISSIONS_ATTR \in v.attrs
        rbac_object_permissions == v.rbac_object_permissions
    IN  IF declared /\ rbac_object_permissions # <<>>
        THEN LET action == _get_view_action(req, v)
             IN  IF action.kind = "raise"
                 THEN [outcome |-> action, invoked |-> <<>>]
                 ELSE LET i == first_match(rbac_object_permissions, action.value, 1)
                      IN  IF i # 0
                          THEN [outcome |-> PermissionClass_has_object_permission(
                                                rbac_object_permissions[i].key, req, v, o),
                                invoked |-> <<i>>]
                          ELSE [outcome |-> Return("False"), invoked |-> <<>>]
        ELSE [outcome |-> Return("True"), invoked |-> <<>>]

----------------------------------------------------------------------------
(* The mocks of test_permissions.py.  An optional argument is a list of at *)
(* most one value: <<>> is None.                                          *)

truthy(arg) == arg # <<>> /\ arg[1] # <<>>

(* a handler object with the given attributes set; rp and rop are optional *)
View(kind, action, rp, rop) ==
    [ kind |-> kind,
      attrs |-> (IF kind = "ViewSet" THEN {"action"} ELSE {})
                    \cup (IF rp # <<>> THEN {RBAC_PERMISSIONS_ATTR} ELSE {})
                    \cup (IF rop # <<>> THEN {RBAC_OBJECT_PERMISSIONS_ATTR} ELSE {}),
      action |-> IF kind = "ViewSet" THEN action ELSE "",
      rbac_permissions |-> IF rp # <<>> THEN rp[1] ELSE <<>>,
      rbac_object_permissions |-> IF rop # <<>> THEN rop[1] ELSE <<>> ]

MockedViewSet(action, rbac_permissions, rbac_object_permissions) ==
    View("ViewSet", action,
         IF truthy(rbac_permissions) THEN rbac_permissions ELSE <<>>,
         IF truthy(rbac_object_permissions) THEN rbac_object_permissions ELSE <<>>)

MockedAPIView(rbac_permissions, rbac_object_permissions) ==
    View("APIView", "",
         IF truthy(rbac_permissions) THEN rbac_permissions ELSE <<>>,
         IF truthy(rbac_object_permissions) THEN rbac_object_permissions ELSE <<>>)

(* MockedRequest(user, method); "" stands for None *)
MockedRequest(user, method) ==
    [ attrs |-> (IF user # "" THEN {"user"} ELSE {}) \cup (IF method # "" THEN {"method"} ELSE {}),
      user |-> user,
      method |-> method ]

----------------------------------------------------------------------------
(* Inputs *)

SeqsUpTo(S, n) == UNION {[1..k -> S] : k \in 0..n}

(* identifiers a principal may hold: catalog values, the sentinel, and a *)
(* string that is no member's value (the unprefixed form)                *)
GrantPool ==
    { Permissions.ALERT_GROUPS_READ,
      Permissions.ALERT_GROUPS_WRITE,
      Permissions.TESTING,
      _generate_permission_string("ALERT_GROUPS", "READ", TRUE) }

GrantedLists == SeqsUpTo({GrafanaPermission(a) : a \in GrantPool}, MaxGranted)

RequiredPool == {"ALERT_GROUPS_READ", "ALERT_GROUPS_WRITE", "TESTING"}

RequiredLists == SeqsUpTo(RequiredPool, MaxRequired)

Users == {"user1", "user2"}

(* the granted lists of the principal of a request *)
PrincipalGrantedLists ==
    SeqsUpTo({GrafanaPermission(a) : a \in {Permissions.ALERT_GROUPS_READ, Permissions.TESTING}},
             MaxGranted)

(* users in which u holds G and every other principal holds nothing *)
UsersWith(u, G) == [x \in Users |-> [permissions |-> IF x = u THEN G ELSE <<>>]]

ViewSetActions == {"hello", "list", "GET"}

Methods == {"GET", "hello"}

Requests == {MockedRequest(u, m) : u \in Users \cup {""}, m \in Methods \cup {""}}

Shapes ==
    {[kind |-> "ViewSet", action |-> a] : a \in ViewSetActions}
        \cup {[kind |-> "APIView", action |-> ""]}

(* Required-Permissions Tables: dicts from action name to a list of members *)
TableKeys == {"hello", "get"}

TableItems ==
    [key : TableKeys,
     value : SeqsUpTo({"ALERT_GROUPS_READ", "ALERT_GROUPS_WRITE"}, MaxRequired)]

(* the keys of a dict are distinct, so a table has at most one item per key *)
RequiredTables ==
    {t \in SeqsUpTo(TableItems, Cardinality(TableKeys)) :
        \A i, j \in 1..Len(t) : i # j => t[i].key # t[j].key}

(* Object Policy Tables: dicts from policy instance to the actions it governs *)
Policies ==
    { MockedPermissionClass("True"),
      MockedPermissionClass("False"),
      MockedPermissionClass("asdfasdfasdf"),
      HasRBACPermissions(<<"ALERT_GROUPS_READ">>) }

PolicyItems == [key : Policies, value : {<<"hello">>, <<"list", "get">>}]

PolicyTables == SeqsUpTo(PolicyItems, MaxPolicyEntries)

Optional(S) == {<<>>} \cup {<<x>> : x \in S}

(* a handler and how it was built: its class declares the attributes, or *)
(* it is one of the mocks and got them as constructor arguments          *)
Built(by, v, rp, rop) ==
    [ view |-> v,
      given |-> [by |-> by, rbac_permissions |-> rp, rbac_object_permissions |-> rop] ]

Handlers(rps, mock_rps, rops, mock_rops) ==
    {Built("class", View(s.kind, s.action, rp, rop), rp, rop) :
        s \in Shapes, rp \in rps, rop \in rops}
    \cup {Built("MockedViewSet", MockedViewSet(a, rp, rop), rp, rop) :
        a \in ViewSetActions, rp \in mock_rps, rop \in mock_rops}
    \cup {Built("MockedAPIView", MockedAPIView(rp, rop), rp, rop) :
        rp \in mock_rps, rop \in mock_rops}

(* handlers of the request-level gate *)
RequestGateHandlers ==
    Handlers(Optional(RequiredTables),
             Optional({t \in RequiredTables : Len(t) <= 1}),
             {<<>>}, {<<>>})

(* handlers of the object-level gate *)
ObjectGateHandlers ==
    Handlers({<<>>, << <<>> >>}, {<<>>},
             Optional(PolicyTables),
             Optional({t \in PolicyTables : Len(t) <= 1}))

Objects == {[type |-> "NoneType"], [type |-> "MockedUser", id |-> "user1"]}

(* the objects, principals and policy instances of the direct policy calls *)
PolicyObjects ==
    {[type |-> "NoneType"]}
        \cup {MockedUser(u) : u \in Users}
        \cup {MockedSchedule(MockedUser(u)) : u \in Users}
        \cup {Thingy(MockedSchedule(MockedUser(u))) : u \in Users}

OwnershipFields == {<<>>, <<"user">>, <<"schedule.user">>}

PolicyRequiredLists == SeqsUpTo({"ALERT_GROUPS_READ", "SCHEDULES_READ"}, MaxRequired)

PolicyGrantedLists ==
    SeqsUpTo({GrafanaPermission(a) :
                 a \in {Permissions.ALERT_GROUPS_READ, Permissions.SCHEDULES_READ,
                        Permissions.TESTING}},
             MaxGranted)

PolicyInstances ==
    {IsOwner(f) : f \in OwnershipFields}
        \cup {HasRBACPermissions(R) : R \in PolicyRequiredLists}
        \cup {IsOwnerOrHasRBACPermissions(R, f) :
                 R \in {R \in PolicyRequiredLists : Len(R) = 1}, f \in OwnershipFields}

(* every principal holds G: different principals with identical permissions *)
UsersAll(G) == [x \in Users |-> [permissions |-> G]]

(* the members of one resource, for the calls that ask for one of them *)
UserSettingsMembers == {"USER_SETTINGS_READ", "USER_SETTINGS_WRITE", "USER_SETTINGS_ADMIN"}

UserSettingsGrantedLists ==
    SeqsUpTo({GrafanaPermission(Permissions[m]) : m \in UserSettingsMembers}, MaxGranted)

(* the methods and actions of the direct calls of _get_view_action *)
ResolverMethods == Methods \cup {"APIVIEW_ACTION", "Post"}

ResolverActions == ViewSetActions \cup {"viewset_action"}

(* The endpoints of the HTTP tests.  A handler class declares its           *)
(* Required-Permissions Table; the handler body of each test is patched to *)
(* answer 200 whatever the request.                                        *)
SetGeneralChannel ==
    MockedAPIView(<< << [key |-> "post", value |-> <<"CHATOPS_WRITE">>] >> >>, <<>>)

SlackTeamSettingsAPIView ==
    MockedAPIView(<< << [key |-> "get", value |-> <<"CHATOPS_READ">>] >> >>, <<>>)

PatchedResponse == "HTTP_200_OK"

(* client.post(url), client.get(url), and a request to a handler that *)
(* declares no table                                                  *)
Endpoints ==
    { [view |-> SetGeneralChannel, method |-> "POST"],
      [view |-> SlackTeamSettingsAPIView, method |-> "GET"],
      [view |-> MockedAPIView(<<>>, <<>>), method |-> "GET"] }

(* the granted lists of the client of an endpoint *)
ClientGrantedLists ==
    SeqsUpTo({GrafanaPermission(Permissions[m]) : m \in {"CHATOPS_READ", "CHATOPS_WRITE", "TESTING"}},
             MaxGranted)

NoDispatch == [stage |-> "none", gate |-> Pending, handler_ran |-> FALSE, status |-> ""]

(* Handlers that declare both tables, reached by several requests at once *)
SharedHandlers ==
    { View("ViewSet", "hello",
           << << [key |-> "hello", value |-> <<"ALERT_GROUPS_READ">>] >> >>,
           << << [key |-> IsOwner(<<>>), value |-> <<"hello">>] >> >>),
      View("APIView", "",
           << << [key |-> "get", value |-> <<"ALERT_GROUPS_READ">>] >> >>,
           << << [key |-> HasRBACPermissions(<<"ALERT_GROUPS_READ">>), value |-> <<"get">>] >> >>) }

(* the number of evaluations under way at once *)
MaxInflight == 2

(* the granted lists of the principals of these requests *)
EvaluationGrantedLists == {G \in PrincipalGrantedLists : Len(G) <= 1}

(* an evaluation: which gate, for which request, its outcome on arrival *)
(* and its outcome once it has run                                      *)
Evaluations ==
    [ kind : {"has_permission", "has_object_permission"},
      request : {MockedRequest(u, m) : u \in Users, m \in Methods},
      alone : {Pending},
      outcome : {Pending} ]

NoPolicy == [cls |-> "none", response |-> "", required_permissions |-> <<>>]

NoCall ==
    [ name |-> "none", user_permissions |-> <<>>, required_permissions |-> <<>>,
      policy |-> NoPolicy, args |-> <<>> ]

NoUsers == [u \in Users |-> [permissions |-> <<>>]]

NoRequest == [attrs |-> {}, user |-> "", method |-> ""]

NoView ==
    [ kind |-> "none", attrs |-> {}, action |-> "",
      rbac_permissions |-> <<>>, rbac_object_permissions |-> <<>> ]

NotBuilt == [by |-> "none", rbac_permissions |-> <<>>, rbac_object_permissions |-> <<>>]

NoObject == [type |-> "NoneType"]

----------------------------------------------------------------------------
(* IsStaff.  An authenticator is an instance of an authentication class, or *)
(* None; a class is the sequence of the classes it derives from, itself     *)
(* first.  The user objects are in users, with the flags IsStaff reads.     *)

Authenticator(cls) == [mro |-> <<cls, "BaseAuthentication", "object">>]

NoAuthenticator == [mro |-> <<"NoneType", "object">>]

isinstance(o, cls) == \E i \in 1..Len(o.mro) : o.mro[i] = cls

STAFF_AUTH_CLASSES == <<"BasicAuthentication", "SessionAuthentication">>

(* a Request: request.user is a user or None (""), request._authenticator *)
(* the authenticator that authenticated it or None                        *)
Request(user, authenticator) ==
    [ attrs |-> {"user", "_authenticator"},
      user |-> user,
      method |-> "",
      _authenticator |-> authenticator ]

(* IsStaff.has_permission as it would be without the test of the authenticator *)
IsStaff_any_authenticator(self, req, v) ==
    LET user == req.user
    IN  IF user # "" /\ users[user].is_authenticated
        THEN Return(PyBool(users[user].is_staff))
        ELSE Return("False")

(* IsStaff.has_permission(request, _view) *)
IsStaff_has_permission(self, req, v) ==
    LET user == req.user
    IN  IF ~ \E i \in 1..Len(self.STAFF_AUTH_CLASSES) :
                isinstance(req._authenticator, self.STAFF_AUTH_CLASSES[i])
        THEN Return("False")
        ELSE IF user # "" /\ users[user].is_authenticated
        THEN Return(PyBool(users[user].is_staff))
        ELSE Return("False")

IsStaff == [cls |-> "IsStaff", STAFF_AUTH_CLASSES |-> STAFF_AUTH_CLASSES]

(* the authenticators of the requests IsStaff is asked about *)
Authenticators ==
    {NoAuthenticator}
        \cup {Authenticator(cls) : cls \in {"BasicAuthentication", "SessionAuthentication",
                                             "TokenAuthentication", "RemoteUserAuthentication"}}

(* users in which u has the flags and every other user has neither *)
UsersFlagged(u, is_authenticated, is_staff) ==
    [x \in Users |->
        [ permissions |-> <<>>,
          is_authenticated |-> x = u /\ is_authenticated,
          is_staff |-> x = u /\ is_staff ]]

----------------------------------------------------------------------------
(* The state machine *)

Init ==
    /\ call = NoCall
    /\ users = NoUsers
    /\ request = NoRequest
    /\ view = NoView
    /\ given = NotBuilt
    /\ obj = NoObject
    /\ invoked = <<>>
    /\ result = Pending
    /\ dispatch = NoDispatch
    /\ inflight = <<>>

Idle == call.name = "none"

(* a caller is about to evaluate has_permissions(user_permissions, required_permissions) *)
CallHasPermissions ==
    /\ Idle
    /\ \E user_permissions \in GrantedLists, required_permissions \in RequiredLists :
          call' = [NoCall EXCEPT !.name = "has_permissions",
                                 !.user_permissions = user_permissions,
                                 !.required_permissions = required_permissions]
    /\ result' = Pending
    /\ UNCHANGED <<users, request, view, given, obj, invoked, dispatch, inflight>>

(* has_permissions runs and returns *)
HasPermissions ==
    /\ call.name = "has_permissions"
    /\ result = Pending
    /\ result' = Return(PyBool(has_permissions(call.user_permissions, call.required_permissions)))
    /\ UNCHANGED <<call, users, request, view, given, obj, invoked, dispatch, inflight>>

(* a request reaches the request-level gate of a handler *)
CallHasPermission ==
    /\ Idle
    /\ call' = [NoCall EXCEPT !.name = "has_permission"]
    /\ \E req \in Requests, h \in RequestGateHandlers :
          /\ request' = req
          /\ \E G \in (IF req.user = "" THEN {<<>>} ELSE PrincipalGrantedLists) :
                users' = UsersWith(req.user, G)
          /\ view' = h.view
          /\ given' = h.given
    /\ result' = Pending
    /\ UNCHANGED <<obj, invoked, dispatch, inflight>>

(* RBACPermission.has_permission runs *)
HasPermission ==
    /\ call.name = "has_permission"
    /\ result = Pending
    /\ result' = has_permission(request, view)
    /\ UNCHANGED <<call, users, request, view, given, obj, invoked, dispatch, inflight>>

(* a request for one object reaches the object-level gate of a handler *)
CallHasObjectPermission ==
    /\ Idle
    /\ call' = [NoCall EXCEPT !.name = "has_object_permission"]
    /\ \E req \in Requests, h \in ObjectGateHandlers :
          /\ request' = req
          /\ \E G \in (IF req.user = "" THEN {<<>>} ELSE PrincipalGrantedLists) :
                users' = UsersWith(req.user, G)
          /\ view' = h.view
          /\ given' = h.given
    /\ obj' \in Objects
    /\ result' = Pending
    /\ UNCHANGED <<invoked, dispatch, inflight>>

(* RBACPermission.has_object_permission runs *)
HasObjectPermission ==
    /\ call.name = "has_object_permission"
    /\ result = Pending
    /\ LET r == has_object_permission(request, view, obj)
       IN  /\ result' = r.outcome
           /\ invoked' = r.invoked
    /\ UNCHANGED <<call, users, request, view, given, obj, dispatch, inflight>>

(* a caller is about to ask a policy instance about an object, as the tests do: *)
(* policy.has_object_permission(request, None, obj)                             *)
CallPolicy ==
    /\ Idle
    /\ \E policy \in PolicyInstances : call' = [NoCall EXCEPT !.name = "policy", !.policy = policy]
    /\ \E u \in Users \cup {""} : request' = MockedRequest(u, "")
    /\ \E G \in PolicyGrantedLists : users' = UsersAll(G)
    /\ obj' \in PolicyObjects
    /\ result' = Pending
    /\ UNCHANGED <<view, given, invoked, dispatch, inflight>>

(* the policy's has_object_permission runs *)
Policy ==
    /\ call.name = "policy"
    /\ result = Pending
    /\ result' = PermissionClass_has_object_permission(call.policy, request, view, obj)
    /\ UNCHANGED <<call, users, request, view, given, obj, invoked, dispatch, inflight>>

(* a caller is about to ask has_permissions for one member of a resource of *)
(* a principal holding members of the same resource                         *)
CallHasPermissionsOnResource ==
    /\ Idle
    /\ \E user_permissions \in UserSettingsGrantedLists, member \in UserSettingsMembers :
          call' = [NoCall EXCEPT !.name = "has_permissions",
                                 !.user_permissions = user_permissions,
                                 !.required_permissions = <<member>>]
    /\ result' = Pending
    /\ UNCHANGED <<users, request, view, given, obj, invoked, dispatch, inflight>>

(* a caller is about to ask whether a member is in ALL_PERMISSIONS *)
CallInAllPermissions ==
    /\ Idle
    /\ \E member \in DOMAIN Permissions :
          call' = [NoCall EXCEPT !.name = "ALL_PERMISSIONS", !.args = <<member>>]
    /\ result' = Pending
    /\ UNCHANGED <<users, request, view, given, obj, invoked, dispatch, inflight>>

(* permission in ALL_PERMISSIONS *)
InAllPermissions ==
    /\ call.name = "ALL_PERMISSIONS"
    /\ result = Pending
    /\ result' = Return(PyBool(\E i \in 1..Len(ALL_PERMISSIONS) : ALL_PERMISSIONS[i] = call.args[1]))
    /\ UNCHANGED <<call, users, request, view, given, obj, invoked, dispatch, inflight>>

(* a caller is about to resolve the action of a request on a handler *)
CallGetViewAction ==
    /\ Idle
    /\ call' = [NoCall EXCEPT !.name = "_get_view_action"]
    /\ \E method \in ResolverMethods \cup {""} : request' = MockedRequest("", method)
    /\ \E v \in {MockedViewSet(a, <<>>, <<>>) : a \in ResolverActions}
                    \cup {MockedAPIView(<<>>, <<>>)} :
          view' = v
    /\ result' = Pending
    /\ UNCHANGED <<users, given, obj, invoked, dispatch, inflight>>

(* _get_view_action runs *)
GetViewAction ==
    /\ call.name = "_get_view_action"
    /\ result = Pending
    /\ result' = _get_view_action(request, view)
    /\ UNCHANGED <<call, users, request, view, given, obj, invoked, dispatch, inflight>>

(* a caller is about to compose the identifier of a resource and an action *)
CallGeneratePermissionString ==
    /\ Idle
    /\ \E resource \in DOMAIN Resources, action \in DOMAIN Actions, ignore_prefix \in BOOLEAN :
          call' = [NoCall EXCEPT !.name = "_generate_permission_string",
                                 !.args = <<resource, action, PyBool(ignore_prefix)>>]
    /\ result' = Pending
    /\ UNCHANGED <<users, request, view, given, obj, invoked, dispatch, inflight>>

(* _generate_permission_string runs *)
GeneratePermissionString ==
    /\ call.name = "_generate_permission_string"
    /\ result = Pending
    /\ result' = Return(_generate_permission_string(call.args[1], call.args[2],
                                                    call.args[3] = "True"))
    /\ UNCHANGED <<call, users, request, view, given, obj, invoked, dispatch, inflight>>

(* a client sends an authenticated request to an endpoint *)
CallDispatch ==
    /\ Idle
    /\ call' = [NoCall EXCEPT !.name = "dispatch"]
    /\ \E endpoint \in Endpoints, u \in Users, G \in ClientGrantedLists :
          /\ request' = MockedRequest(u, endpoint.method)
          /\ users' = UsersWith(u, G)
          /\ view' = endpoint.view
    /\ dispatch' = [NoDispatch EXCEPT !.stage = "received"]
    /\ result' = Pending
    /\ UNCHANGED <<given, obj, invoked, inflight>>

(* dispatch asks the request-level gate before it looks for the handler body *)
CheckPermissions ==
    /\ call.name = "dispatch"
    /\ dispatch.stage = "received"
    /\ dispatch' = [dispatch EXCEPT !.stage = "checked", !.gate = has_permission(request, view)]
    /\ UNCHANGED <<call, users, request, view, given, obj, invoked, result, inflight>>

(* the gate returned false: the client gets the access-denied response *)
PermissionDenied ==
    /\ call.name = "dispatch"
    /\ dispatch.stage = "checked"
    /\ dispatch.gate = Return("False")
    /\ dispatch' = [dispatch EXCEPT !.stage = "responded", !.status = "HTTP_403_FORBIDDEN"]
    /\ result' = Return("HTTP_403_FORBIDDEN")
    /\ UNCHANGED <<call, users, request, view, given, obj, invoked, inflight>>

(* the gate returned true: the handler body runs and its response is sent *)
RunHandler ==
    /\ call.name = "dispatch"
    /\ dispatch.stage = "checked"
    /\ dispatch.gate = Return("True")
    /\ dispatch' = [dispatch EXCEPT !.stage = "responded", !.handler_ran = TRUE,
                                    !.status = PatchedResponse]
    /\ result' = Return(PatchedResponse)
    /\ UNCHANGED <<call, users, request, view, given, obj, invoked, inflight>>

(* the gate raised: the exception is no access decision and ends the request *)
HandleException ==
    /\ call.name = "dispatch"
    /\ dispatch.stage = "checked"
    /\ dispatch.gate.kind = "raise"
    /\ dispatch' = [dispatch EXCEPT !.stage = "responded",
                                    !.status = "HTTP_500_INTERNAL_SERVER_ERROR"]
    /\ result' = dispatch.gate
    /\ UNCHANGED <<call, users, request, view, given, obj, invoked, inflight>>

(* the outcome of one evaluation in the present state *)
Decision(e) ==
    IF e.kind = "has_permission"
    THEN has_permission(e.request, view)
    ELSE has_object_permission(e.request, view, obj).outcome

(* several requests reach the gates of one handler at once; each evaluation *)
(* notes the outcome it has on arrival, before any other has run            *)
CallEvaluations ==
    /\ Idle
    /\ call' = [NoCall EXCEPT !.name = "evaluations"]
    /\ view' \in SharedHandlers
    /\ obj' = MockedUser("user1")
    /\ \E G1, G2 \in EvaluationGrantedLists :
          users' = [x \in Users |-> [permissions |-> IF x = "user1" THEN G1 ELSE G2]]
    /\ \E e \in [1..MaxInflight -> Evaluations] :
          inflight' = [i \in 1..MaxInflight |-> [e[i] EXCEPT !.alone = Decision(e[i])']]
    /\ UNCHANGED <<request, given, invoked, result, dispatch>>

(* an evaluation that uses up the granted list of its principal *)
Evaluate_consuming(i) ==
    /\ call.name = "evaluations"
    /\ i \in 1..Len(inflight)
    /\ inflight[i].outcome = Pending
    /\ inflight' = [inflight EXCEPT ![i].outcome = Decision(inflight[i])]
    /\ users' = [users EXCEPT ![inflight[i].request.user].permissions = <<>>]
    /\ UNCHANGED <<call, request, view, given, obj, invoked, result, dispatch>>

(* one of the evaluations under way runs, in any order *)
Evaluate(i) ==
    /\ call.name = "evaluations"
    /\ i \in 1..Len(inflight)
    /\ inflight[i].outcome = Pending
    /\ inflight' = [inflight EXCEPT ![i].outcome = Decision(inflight[i])]
    /\ UNCHANGED <<call, users, request, view, given, obj, invoked, result, dispatch>>

(* every request has its decision *)
FinishEvaluations ==
    /\ call.name = "evaluations"
    /\ \A i \in 1..Len(inflight) : inflight[i].outcome # Pending
    /\ call' = NoCall
    /\ users' = NoUsers
    /\ view' = NoView
    /\ obj' = NoObject
    /\ inflight' = <<>>
    /\ UNCHANGED <<request, given, invoked, result, dispatch>>

(* a request reaches IsStaff: any authenticator, any user or none, any flags *)
CallIsStaff ==
    /\ Idle
    /\ call' = [NoCall EXCEPT !.name = "IsStaff"]
    /\ \E u \in Users \cup {""}, authenticator \in Authenticators,
          is_authenticated \in BOOLEAN, is_staff \in BOOLEAN :
          /\ request' = Request(u, authenticator)
          /\ users' = UsersFlagged(u, is_authenticated, is_staff)
    /\ result' = Pending
    /\ UNCHANGED <<view, given, obj, invoked, dispatch, inflight>>

(* IsStaff.has_permission runs *)
IsStaffHasPermission ==
    /\ call.name = "IsStaff"
    /\ result = Pending
    /\ result' = IsStaff_has_permission(IsStaff, request, view)
    /\ UNCHANGED <<call, users, request, view, given, obj, invoked, dispatch, inflight>>

(* the caller takes the outcome; the objects of the call are dropped *)
Finish ==
    /\ ~Idle
    /\ result # Pending
    /\ call' = NoCall
    /\ users' = NoUsers
    /\ request' = NoRequest
    /\ view' = NoView
    /\ given' = NotBuilt
    /\ obj' = NoObject
    /\ invoked' = <<>>
    /\ result' = Pending
    /\ dispatch' = NoDispatch
    /\ inflight' = <<>>

Next ==
    \/ CallHasPermissions
    \/ HasPermissions
    \/ CallHasPermission
    \/ HasPermission
    \/ CallHasObjectPermission
    \/ HasObjectPermission
    \/ CallPolicy
    \/ Policy
    \/ CallHasPermissionsOnResource
    \/ CallInAllPermissions
    \/ InAllPermissions
    \/ CallGetViewAction
    \/ GetViewAction
    \/ CallGeneratePermissionString
    \/ GeneratePermissionString
    \/ CallDispatch
    \/ CheckPermissions
    \/ PermissionDenied
    \/ RunHandler
    \/ HandleException
    \/ CallEvaluations
    \/ \E i \in 1..MaxInflight : Evaluate(i)
    \/ FinishEvaluations
    \/ CallIsStaff
    \/ IsStaffHasPermission
    \/ Finish

Spec == Init /\ [][Next]_vars

----------------------------------------------------------------------------
(* Vocabulary of the properties *)

Returned(name) == call.name = name /\ result # Pending

(* every member of the required list R has its value among the "action" *)
(* strings of the granted list G; only the elements of G and R count    *)
Satisfied(G, R) ==
    \A i \in 1..Len(R) : \E j \in 1..Len(G) : G[j].action = Permissions[R[i]]

GrantedSet(G) == {G[j] : j \in 1..Len(G)}

RequiredSet(R) == {R[i] : i \in 1..Len(R)}

(* the handler declares the attribute *)
Declares(attr) == attr \in view.attrs

(* the action of the request resolves: a ViewSet has its action, an APIView *)
(* request has its method                                                   *)
ActionResolves == _get_view_action(request, view).kind = "return"

ResolvedAction == _get_view_action(request, view).value

(* the positions of the Required-Permissions Table whose key is the action *)
EntriesFor(action) ==
    {i \in 1..Len(view.rbac_permissions) : view.rbac_permissions[i].key = action}

(* the positions of the Object Policy Table whose actions contain the action *)
PoliciesFor(action) ==
    {i \in 1..Len(view.rbac_object_permissions) :
        \E k \in 1..Len(view.rbac_object_permissions[i].value) :
            view.rbac_object_permissions[i].value[k] = action}

HasPrincipal == "user" \in request.attrs

----------------------------------------------------------------------------
(* C1: has_permissions(G, R) returns True exactly when every member of R  *)
(* has its value equal to the "action" of some record of G, and False     *)
(* otherwise; any lists with the same elements as G and R (reordered or   *)
(* with duplicates) get the same answer.                                   *)
C1_AllRequiredGranted ==
    Returned("has_permissions") =>
        /\ result = Return(PyBool(Satisfied(call.user_permissions, call.required_permissions)))
        /\ \A G \in GrantedLists, R \in RequiredLists :
              (/\ GrantedSet(G) = GrantedSet(call.user_permissions)
               /\ RequiredSet(R) = RequiredSet(call.required_permissions))
                  => Return(PyBool(has_permissions(G, R))) = result

(* two different members are required, both are granted in the other order *)
C1_Witness ==
    /\ Returned("has_permissions")
    /\ call.required_permissions = <<"ALERT_GROUPS_READ", "ALERT_GROUPS_WRITE">>
    /\ call.user_permissions = <<GrafanaPermission(Permissions.ALERT_GROUPS_WRITE),
                                 GrafanaPermission(Permissions.ALERT_GROUPS_READ)>>
    /\ result = Return("True")

(* C2: on a handler without rbac_permissions, has_permission never returns *)
(* a value; whenever the action resolves it raises AssertionError, for     *)
(* both handler shapes, with or without a principal on the request.        *)
C2_MissingTableAsserts ==
    (Returned("has_permission") /\ ~Declares(RBAC_PERMISSIONS_ATTR)) =>
        /\ result.kind = "raise"
        /\ ActionResolves => result = Raise("AssertionError")

(* an APIView without the table, a request with a method and no principal *)
C2_Witness ==
    /\ Returned("has_permission")
    /\ view.kind = "APIView"
    /\ ~Declares(RBAC_PERMISSIONS_ATTR)
    /\ request.attrs = {"method"}
    /\ result = Raise("AssertionError")

(* C3: when the table has an entry for the resolved action, has_permission *)
(* returns True exactly when the principal's granted list satisfies that   *)
(* entry's list, and False otherwise; an empty entry admits everyone.      *)
C3_EntryDecides ==
    (/\ Returned("has_permission")
     /\ Declares(RBAC_PERMISSIONS_ATTR)
     /\ HasPrincipal
     /\ ActionResolves
     /\ EntriesFor(ResolvedAction) # {}) =>
        LET entry == view.rbac_permissions[CHOOSE i \in EntriesFor(ResolvedAction) : TRUE].value
            G == users[request.user].permissions
        IN  /\ result = Return(PyBool(Satisfied(G, entry)))
            /\ entry = <<>> => result = Return("True")
            /\ (entry # <<>> /\ \A j \in 1..Len(G) : \A i \in 1..Len(entry) :
                                    G[j].action # Permissions[entry[i]])
                  => result = Return("False")

(* an APIView reached by GET whose "get" entry is denied to a principal *)
(* holding only the sentinel                                            *)
C3_Witness ==
    /\ Returned("has_permission")
    /\ view.kind = "APIView"
    /\ request.attrs = {"user", "method"}
    /\ request.method = "GET"
    /\ view.rbac_permissions = <<[key |-> "get", value |-> <<"ALERT_GROUPS_READ">>]>>
    /\ users[request.user].permissions = <<GrafanaPermission(Permissions.TESTING)>>
    /\ result = Return("False")

(* C4: when the declared table has no entry for the resolved action,     *)
(* has_permission returns True for every principal, whatever it holds.   *)
C4_UnlistedActionAllowed ==
    (/\ Returned("has_permission")
     /\ Declares(RBAC_PERMISSIONS_ATTR)
     /\ HasPrincipal
     /\ ActionResolves
     /\ EntriesFor(ResolvedAction) = {}) =>
        result = Return("True")

(* a ViewSet at action "list", a table that lists only "hello", a principal *)
(* holding only the sentinel                                                *)
C4_Witness ==
    /\ Returned("has_permission")
    /\ view.kind = "ViewSet"
    /\ view.action = "list"
    /\ view.rbac_permissions = <<[key |-> "hello", value |-> <<"ALERT_GROUPS_READ">>]>>
    /\ HasPrincipal
    /\ users[request.user].permissions = <<GrafanaPermission(Permissions.TESTING)>>
    /\ result = Return("True")

(* C5: has_permissions(G, []) returns True for every G, the empty list *)
(* included.                                                           *)
C5_EmptyRequiredGrants ==
    (Returned("has_permissions") /\ call.required_permissions = <<>>) =>
        result = Return("True")

(* nothing granted, nothing required *)
C5_Witness ==
    /\ Returned("has_permissions")
    /\ call.required_permissions = <<>>
    /\ call.user_permissions = <<>>
    /\ result = Return("True")

(* C6: on a handler without rbac_object_permissions, has_object_permission *)
(* returns True and runs no policy, for every request (a request without   *)
(* principal or method included), object and handler shape, whether or not *)
(* the handler declares rbac_permissions.                                  *)
C6_UndeclaredPoliciesAllow ==
    (Returned("has_object_permission") /\ ~Declares(RBAC_OBJECT_PERMISSIONS_ATTR)) =>
        /\ result = Return("True")
        /\ invoked = <<>>

(* an APIView that declares neither table, a request with nothing on it *)
C6_Witness ==
    /\ Returned("has_object_permission")
    /\ view.kind = "APIView"
    /\ view.attrs = {}
    /\ request.attrs = {}
    /\ result = Return("True")

(* C7: when the declared Object Policy Table has entries and none of them *)
(* lists the resolved action, has_object_permission returns False and     *)
(* runs no policy, for every principal and object.                        *)
C7_UnmatchedActionDenied ==
    (/\ Returned("has_object_permission")
     /\ Declares(RBAC_OBJECT_PERMISSIONS_ATTR)
     /\ view.rbac_object_permissions # <<>>
     /\ ActionResolves
     /\ PoliciesFor(ResolvedAction) = {}) =>
        /\ result = Return("False")
        /\ invoked = <<>>

(* a ViewSet at action "GET" whose only policy, one that would answer True, *)
(* governs "list" and "get"                                                 *)
C7_Witness ==
    /\ Returned("has_object_permission")
    /\ view.kind = "ViewSet"
    /\ view.action = "GET"
    /\ view.rbac_object_permissions =
           <<[key |-> MockedPermissionClass("True"), value |-> <<"list", "get">>]>>
    /\ result = Return("False")
    /\ invoked = <<>>

(* C8 as stated: with a declared, empty Object Policy Table *)
(* has_object_permission returns False.                     *)
C8_EmptyTableDenies ==
    (/\ Returned("has_object_permission")
     /\ Declares(RBAC_OBJECT_PERMISSIONS_ATTR)
     /\ view.rbac_object_permissions = <<>>) =>
        result = Return("False")

(* C8, amended: with a declared, empty Object Policy Table            *)
(* has_object_permission returns True and runs no policy, for every   *)
(* request, principal and object.                                     *)
C8_EmptyTableAllows ==
    (/\ Returned("has_object_permission")
     /\ Declares(RBAC_OBJECT_PERMISSIONS_ATTR)
     /\ view.rbac_object_permissions = <<>>) =>
        /\ result = Return("True")
        /\ invoked = <<>>

(* a ViewSet whose class declares the empty table, a principal, an object *)
C8_Witness ==
    /\ Returned("has_object_permission")
    /\ view.kind = "ViewSet"
    /\ Declares(RBAC_OBJECT_PERMISSIONS_ATTR)
    /\ view.rbac_object_permissions = <<>>
    /\ HasPrincipal
    /\ obj.type = "MockedUser"
    /\ result = Return("True")

(* C9: a handler that was given the empty mapping as its Object Policy *)
(* Table, by its class or as the constructor argument of MockedViewSet *)
(* or MockedAPIView, gets True from has_object_permission.             *)
C9_GivenEmptyMappingAllows ==
    (Returned("has_object_permission") /\ given.rbac_object_permissions = << <<>> >>) =>
        result = Return("True")

(* the test: MockedAPIView(rbac_object_permissions={}), MockedRequest(None, "hello"), None *)
C9_Witness ==
    /\ Returned("has_object_permission")
    /\ given.by = "MockedAPIView"
    /\ given.rbac_object_permissions = << <<>> >>
    /\ request = MockedRequest("", "hello")
    /\ obj = NoObject
    /\ result = Return("True")

(* C10: when some entries of the Object Policy Table list the resolved   *)
(* action, has_object_permission returns the outcome of the first such   *)
(* entry's policy as it is, and that policy is the only one that runs.   *)
C10_FirstMatchWins ==
    (/\ Returned("has_object_permission")
     /\ Declares(RBAC_OBJECT_PERMISSIONS_ATTR)
     /\ ActionResolves
     /\ PoliciesFor(ResolvedAction) # {}) =>
        LET first == CHOOSE i \in PoliciesFor(ResolvedAction) :
                         \A j \in PoliciesFor(ResolvedAction) : i <= j
            policy == view.rbac_object_permissions[first].key
        IN  /\ invoked = <<first>>
            /\ result = PermissionClass_has_object_permission(policy, request, view, obj)
            /\ policy.cls = "MockedPermissionClass" => result = Return(policy.response)

(* two policies govern "hello": the first answers False, the second True *)
C10_Witness ==
    /\ Returned("has_object_permission")
    /\ ResolvedAction = "hello"
    /\ view.rbac_object_permissions =
           <<[key |-> MockedPermissionClass("False"), value |-> <<"hello">>],
             [key |-> MockedPermissionClass("True"), value |-> <<"hello">>]>>
    /\ result = Return("False")
    /\ invoked = <<1>>

----------------------------------------------------------------------------
(* Vocabulary of the ownership properties *)

PolicyReturned(cls) == Returned("policy") /\ call.policy.cls = cls

(* the dotted path leads from the object to a value *)
Resolvable(field, o) ==
    CASE field = <<>> -> TRUE
      [] field = <<"user">> -> o.type = "MockedSchedule"
      [] field = <<"schedule.user">> -> o.type = "Thingy"

(* the value the path leads to *)
OwnerValue(field, o) ==
    CASE field = <<>> -> o
      [] field = <<"user">> -> o.user
      [] field = <<"schedule.user">> -> o.schedule.user

(* the owner value is the principal of the request *)
IsThePrincipal(field, o) ==
    \E u \in Users : u = request.user /\ OwnerValue(field, o) = MockedUser(u)

(* C11: IsOwner.has_object_permission returns True exactly when the owner *)
(* value is the principal of the request: the object itself without a     *)
(* path, else the value the dotted path leads to ("user",                 *)
(* "schedule.user"); another principal with the same permissions is not   *)
(* the owner.                                                             *)
C11_OwnerIsThePrincipal ==
    (/\ PolicyReturned("IsOwner")
     /\ HasPrincipal
     /\ Resolvable(call.policy.ownership_field, obj)) =>
        result = Return(PyBool(IsThePrincipal(call.policy.ownership_field, obj)))

(* user2 asks for a thingy whose schedule belongs to user1, who holds the *)
(* same permissions                                                       *)
C11_Witness ==
    /\ PolicyReturned("IsOwner")
    /\ call.policy.ownership_field = <<"schedule.user">>
    /\ obj = Thingy(MockedSchedule(MockedUser("user1")))
    /\ request.user = "user2"
    /\ users["user1"].permissions = users["user2"].permissions
    /\ result = Return("False")

(* C12: when an attribute along the configured path is missing on the *)
(* object, IsOwner.has_object_permission raises AttributeError; it    *)
(* returns neither True nor False, whoever asks.                      *)
C12_MissingAttributeRaises ==
    (/\ PolicyReturned("IsOwner")
     /\ ~Resolvable(call.policy.ownership_field, obj)) =>
        result = Raise("AttributeError")

(* the path "schedule.user" on a schedule, which has a user but no schedule *)
C12_Witness ==
    /\ PolicyReturned("IsOwner")
    /\ call.policy.ownership_field = <<"schedule.user">>
    /\ obj = MockedSchedule(MockedUser("user1"))
    /\ request.user = "user1"
    /\ result = Raise("AttributeError")

(* C13: IsOwnerOrHasRBACPermissions.has_object_permission returns True    *)
(* exactly when the principal is the owner or its granted list satisfies  *)
(* the required list, with no path, a one-level path and a nested path.   *)
C13_OwnerOrPermitted ==
    (/\ PolicyReturned("IsOwnerOrHasRBACPermissions")
     /\ HasPrincipal
     /\ Resolvable(call.policy.IsOwner.ownership_field, obj)) =>
        LET owner == IsThePrincipal(call.policy.IsOwner.ownership_field, obj)
            permitted == Satisfied(users[request.user].permissions,
                                   call.policy.HasRBACPermissions.required_permissions)
        IN  result = Return(PyBool(owner \/ permitted))

(* user2 is not the owner of the thingy and holds the required permission *)
C13_Witness ==
    /\ PolicyReturned("IsOwnerOrHasRBACPermissions")
    /\ call.policy.IsOwner.ownership_field = <<"schedule.user">>
    /\ call.policy.HasRBACPermissions.required_permissions = <<"SCHEDULES_READ">>
    /\ obj = Thingy(MockedSchedule(MockedUser("user1")))
    /\ request.user = "user2"
    /\ users["user2"].permissions = <<GrafanaPermission(Permissions.SCHEDULES_READ)>>
    /\ result = Return("True")

(* C14: HasRBACPermissions.has_object_permission returns True exactly when *)
(* the principal's granted list satisfies the list given at construction,  *)
(* and the answer is the same for every object (None included) and         *)
(* handler.                                                                *)
C14_BlanketPermission ==
    (PolicyReturned("HasRBACPermissions") /\ HasPrincipal) =>
        /\ result = Return(PyBool(Satisfied(users[request.user].permissions,
                                            call.policy.required_permissions)))
        /\ \A o \in PolicyObjects, h \in {view, MockedAPIView(<<>>, <<>>)} :
              HasRBACPermissions_has_object_permission(call.policy, request, h, o) = result

(* a principal holding the permission asks about no object at all *)
C14_Witness ==
    /\ PolicyReturned("HasRBACPermissions")
    /\ call.policy.required_permissions = <<"ALERT_GROUPS_READ">>
    /\ HasPrincipal
    /\ users[request.user].permissions = <<GrafanaPermission(Permissions.ALERT_GROUPS_READ)>>
    /\ obj = NoObject
    /\ result = Return("True")

----------------------------------------------------------------------------
(* Vocabulary of the catalog properties *)

(* the members ALL_PERMISSIONS lists *)
Catalog == {ALL_PERMISSIONS[i] : i \in 1..Len(ALL_PERMISSIONS)}

(* the granted list holds the sentinel identifier and nothing else *)
OnlySentinel(G) == G # <<>> /\ \A j \in 1..Len(G) : G[j].action = Permissions.TESTING

(* a non-empty required list made of catalog members *)
CatalogRequirement(R) == R # <<>> /\ \A i \in 1..Len(R) : R[i] \in Catalog

(* C15: a principal whose only granted identifier is the sentinel TESTING *)
(* is denied by has_permissions for every non-empty required list of     *)
(* ALL_PERMISSIONS members, and so by the request gate whenever the      *)
(* entry of the resolved action is such a list.                          *)
C15_SentinelNeverSatisfies ==
    /\ (/\ Returned("has_permissions")
        /\ OnlySentinel(call.user_permissions)
        /\ CatalogRequirement(call.required_permissions)) =>
           /\ result = Return("False")
           /\ \A member \in Catalog : ~has_permissions(call.user_permissions, <<member>>)
    /\ (/\ Returned("has_permission")
        /\ Declares(RBAC_PERMISSIONS_ATTR)
        /\ HasPrincipal
        /\ OnlySentinel(users[request.user].permissions)
        /\ ActionResolves
        /\ \E i \in EntriesFor(ResolvedAction) :
              CatalogRequirement(view.rbac_permissions[i].value)) =>
           result = Return("False")

(* the sentinel, held twice, against two catalog members *)
C15_Witness ==
    /\ Returned("has_permissions")
    /\ call.user_permissions = <<GrafanaPermission(Permissions.TESTING),
                                 GrafanaPermission(Permissions.TESTING)>>
    /\ call.required_permissions = <<"ALERT_GROUPS_WRITE", "ALERT_GROUPS_READ">>
    /\ result = Return("False")

(* C16: ALL_PERMISSIONS holds every member of RBACPermission.Permissions *)
(* but TESTING, each once; the sentinel identifier is the value of none  *)
(* of its members.                                                       *)
C16_CatalogExcludesSentinel ==
    Returned("ALL_PERMISSIONS") =>
        LET member == call.args[1]
            places == {i \in 1..Len(ALL_PERMISSIONS) : ALL_PERMISSIONS[i] = member}
        IN  /\ result = Return(PyBool(member # "TESTING"))
            /\ Cardinality(places) = IF member = "TESTING" THEN 0 ELSE 1
            /\ Len(ALL_PERMISSIONS) = Cardinality(DOMAIN Permissions) - 1
            /\ \A i \in 1..Len(ALL_PERMISSIONS) :
                  Permissions[ALL_PERMISSIONS[i]] # "grafana-oncall-app.impossible-testing:impossible-testing"

(* the sentinel is looked up and is not there *)
C16_Witness ==
    /\ Returned("ALL_PERMISSIONS")
    /\ call.args = <<"TESTING">>
    /\ result = Return("False")

(* the lower-case form of each method of the direct calls *)
LowerCased ==
    [m \in ResolverMethods |->
        CASE m = "GET" -> "get"
          [] m = "hello" -> "hello"
          [] m = "APIVIEW_ACTION" -> "apiview_action"
          [] m = "Post" -> "post"]

(* C17: _get_view_action returns the action attribute of a ViewSet as it *)
(* is, whatever the method of the request (none included), and for any   *)
(* other handler the method of the request in lower case.                *)
C17_ActionResolution ==
    Returned("_get_view_action") =>
        /\ view.kind = "ViewSet" => result = Return(view.action)
        /\ (view.kind = "APIView" /\ "method" \in request.attrs) =>
               result = Return(LowerCased[request.method])

(* a ViewSet whose action is "GET", reached by a request whose method is "Post" *)
C17_Witness ==
    /\ Returned("_get_view_action")
    /\ view.kind = "ViewSet"
    /\ view.action = "GET"
    /\ request.method = "Post"
    /\ result = Return("GET")

(* C18: _generate_permission_string gives "grafana-oncall-app", ".", the *)
(* resource value, ":" and the action value; with ignore_prefix only the *)
(* resource value, ":" and the action value; the first is always the     *)
(* prefix, "." and the second.                                           *)
C18_IdentifierFormat ==
    Returned("_generate_permission_string") =>
        LET resource == call.args[1]
            action == call.args[2]
            unprefixed == Resources[resource] \o ":" \o Actions[action]
        IN  /\ call.args[3] = "True" => result = Return(unprefixed)
            /\ call.args[3] = "False" => result = Return("grafana-oncall-app." \o unprefixed)
            /\ _generate_permission_string(resource, action, FALSE)
                   = "grafana-oncall-app" \o "." \o _generate_permission_string(resource, action, TRUE)
            /\ (resource = "ALERT_GROUPS" /\ action = "WRITE") =>
                   result.value \in {"grafana-oncall-app.alert-groups:write", "alert-groups:write"}

(* the identifier of (ALERT_GROUPS, WRITE), with its prefix *)
C18_Witness ==
    /\ Returned("_generate_permission_string")
    /\ call.args = <<"ALERT_GROUPS", "WRITE", "False">>
    /\ result = Return("grafana-oncall-app.alert-groups:write")

(* the members that share a resource *)
ResourceFamilies ==
    { {"ALERT_GROUPS_READ", "ALERT_GROUPS_WRITE"},
      {"USER_SETTINGS_READ", "USER_SETTINGS_WRITE", "USER_SETTINGS_ADMIN"} }

(* C20: permissions are not hierarchical: a principal holding only other *)
(* members of the required member's resource (write or admin for read,   *)
(* admin or read for write) is denied; a required member is met only by  *)
(* a granted record with the identical string.                           *)
C20_NotHierarchical ==
    Returned("has_permissions") =>
        /\ \A family \in ResourceFamilies : \A member \in family :
              (/\ call.required_permissions = <<member>>
               /\ \A j \in 1..Len(call.user_permissions) :
                     \E other \in family \ {member} :
                        call.user_permissions[j].action = Permissions[other]) =>
                  result = Return("False")
        /\ result = Return("True") =>
              \A i \in 1..Len(call.required_permissions) :
                 \E j \in 1..Len(call.user_permissions) :
                    call.user_permissions[j].action = Permissions[call.required_permissions[i]]

(* admin and write of user-settings are held, read is required *)
C20_Witness ==
    /\ Returned("has_permissions")
    /\ call.user_permissions = <<GrafanaPermission(Permissions.USER_SETTINGS_ADMIN),
                                 GrafanaPermission(Permissions.USER_SETTINGS_WRITE)>>
    /\ call.required_permissions = <<"USER_SETTINGS_READ">>
    /\ result = Return("False")

----------------------------------------------------------------------------
(* Vocabulary of the dispatch property *)

Responded == call.name = "dispatch" /\ dispatch.stage = "responded"

(* the key under which the endpoint's table lists the method of the request *)
EndpointAction == IF request.method = "POST" THEN "post" ELSE "get"

(* the endpoint's table has an entry for the request which the client's *)
(* granted list does not satisfy                                        *)
ClientLacksRequired ==
    \E i \in 1..Len(view.rbac_permissions) :
        /\ view.rbac_permissions[i].key = EndpointAction
        /\ ~Satisfied(users[request.user].permissions, view.rbac_permissions[i].value)

(* the step that runs the handler body *)
HandlerStarts == ~dispatch.handler_ran /\ dispatch'.handler_ran

(* C19: in the dispatch of a request the handler body runs only after the  *)
(* request-level gate returned true; when the gate returns false, as it    *)
(* does for a client without the required permission, the response is 403  *)
(* and the handler body has not run, although it would have answered 200.  *)
C19_GateBeforeHandler ==
    /\ [][HandlerStarts => (dispatch.stage = "checked" /\ dispatch.gate = Return("True"))]_vars
    /\ [](dispatch.handler_ran => dispatch.gate = Return("True"))
    /\ []((Responded /\ dispatch.gate = Return("False")) =>
             (dispatch.status = "HTTP_403_FORBIDDEN" /\ ~dispatch.handler_ran))
    /\ []((Responded /\ Declares(RBAC_PERMISSIONS_ATTR) /\ ClientLacksRequired) =>
             (dispatch.status = "HTTP_403_FORBIDDEN" /\ ~dispatch.handler_ran))

(* CHATOPS_READ alone posts to the endpoint that requires CHATOPS_WRITE *)
C19_Witness ==
    /\ Responded
    /\ view = SetGeneralChannel
    /\ request.method = "POST"
    /\ users[request.user].permissions = <<GrafanaPermission(Permissions.CHATOPS_READ)>>
    /\ dispatch.gate = Return("False")
    /\ dispatch.status = "HTTP_403_FORBIDDEN"
    /\ ~dispatch.handler_ran
    /\ PatchedResponse = "HTTP_200_OK"

----------------------------------------------------------------------------
(* Vocabulary of the uniqueness property *)

(* the (resource, action) pairs of the two enumerations *)
Pairs == (DOMAIN Resources) \X (DOMAIN Actions)

(* the pairs whose prefixed identifier is the string *)
PairsOf(identifier) ==
    {pair \in Pairs : _generate_permission_string(pair[1], pair[2], FALSE) = identifier}

(* C21: every member of Permissions is the identifier of exactly one       *)
(* (resource, action) pair; no two members have the same value; and        *)
(* _generate_permission_string gives distinct pairs distinct identifiers,  *)
(* with the prefix and without it.                                         *)
C21_IdentifiersUnique ==
    Returned("_generate_permission_string") =>
        LET resource == call.args[1]
            action == call.args[2]
            ignore_prefix == call.args[3] = "True"
        IN  /\ \A pair \in Pairs \ {<<resource, action>>} :
                  _generate_permission_string(pair[1], pair[2], ignore_prefix) # result.value
            /\ \A member \in DOMAIN Permissions :
                  /\ Cardinality(PairsOf(Permissions[member])) = 1
                  /\ \A other \in DOMAIN Permissions \ {member} :
                        Permissions[other] # Permissions[member]

(* the identifier of (USER_SETTINGS, ADMIN) is the value of one member *)
C21_Witness ==
    /\ Returned("_generate_permission_string")
    /\ call.args = <<"USER_SETTINGS", "ADMIN", "False">>
    /\ result = Return(Permissions.USER_SETTINGS_ADMIN)
    /\ PairsOf(result.value) = {<<"USER_SETTINGS", "ADMIN">>}

----------------------------------------------------------------------------
(* Vocabulary of the frame property *)

(* the step in which a gate or a policy runs *)
GateRuns ==
    \/ /\ call.name \in {"has_permissions", "has_permission", "has_object_permission", "policy"}
       /\ result = Pending
       /\ result' # Pending
    \/ /\ call.name = "dispatch"
       /\ dispatch.stage = "received"
       /\ dispatch'.stage = "checked"
    \/ /\ call.name = "evaluations"
       /\ call'.name = "evaluations"
       /\ \E i \in 1..Len(inflight) :
             inflight[i].outcome = Pending /\ inflight'[i].outcome # Pending

(* the granted lists, the handler with its two tables, the target object *)
(* and the lists of a direct call are what they were                     *)
InputsKept ==
    /\ users' = users
    /\ view' = view
    /\ obj' = obj
    /\ call' = call

(* C22: no gate or policy operation changes the granted list of a        *)
(* principal, the Required-Permissions Table or the Object Policy Table  *)
(* of the handler, or the target object; so of several evaluations under *)
(* way at once, run in any order, each has the outcome it had on arrival *)
(* before any other ran.                                                 *)
C22_GatesChangeNothing ==
    /\ [][GateRuns => InputsKept]_vars
    /\ [](call.name = "evaluations" =>
             \A i \in 1..Len(inflight) :
                inflight[i].outcome # Pending => inflight[i].outcome = inflight[i].alone)

(* the same principal asks both gates at once and is allowed by both *)
C22_Witness ==
    /\ call.name = "evaluations"
    /\ inflight[1].request.user = "user1"
    /\ inflight[2].request.user = "user1"
    /\ inflight[1].kind = "has_permission"
    /\ inflight[2].kind = "has_object_permission"
    /\ users["user1"].permissions # <<>>
    /\ inflight[1].outcome = Return("True")
    /\ inflight[2].outcome = Return("True")
    /\ \E i \in EntriesFor("hello") : view.rbac_permissions[i].value # <<>>

(* C23: IsOwnerOrHasRBACPermissions.has_object_permission asks ownership  *)
(* first and the RBAC check only when ownership is false: when the path   *)
(* cannot be resolved on the object the call raises AttributeError, also  *)
(* for a principal whose granted list satisfies the required list; and an *)
(* owner whose list does not satisfy it is allowed by ownership.          *)
C23_MisconfiguredPathNotRescued ==
    PolicyReturned("IsOwnerOrHasRBACPermissions") =>
        LET field == call.policy.IsOwner.ownership_field
            required == call.policy.HasRBACPermissions.required_permissions
        IN  /\ ~Resolvable(field, obj) => result = Raise("AttributeError")
            /\ (/\ Resolvable(field, obj)
                /\ HasPrincipal
                /\ IsThePrincipal(field, obj)
                /\ ~Satisfied(users[request.user].permissions, required)) =>
                   result = Return("True")

(* a principal holding the required permission asks for a schedule through *)
(* the path "schedule.user", which a schedule does not have                *)
C23_Witness ==
    /\ PolicyReturned("IsOwnerOrHasRBACPermissions")
    /\ call.policy.IsOwner.ownership_field = <<"schedule.user">>
    /\ call.policy.HasRBACPermissions.required_permissions = <<"SCHEDULES_READ">>
    /\ obj = MockedSchedule(MockedUser("user1"))
    /\ request.user = "user2"
    /\ Satisfied(users["user2"].permissions, <<"SCHEDULES_READ">>)
    /\ result = Raise("AttributeError")

----------------------------------------------------------------------------
(* Vocabulary of the monotonicity property *)

(* the elements of seq at the positions in keep, in order *)
RECURSIVE Sub(_, _, _)
Sub(seq, keep, i) ==
    IF i > Len(seq)
    THEN <<>>
    ELSE (IF i \in keep THEN <<seq[i]>> ELSE <<>>) \o Sub(seq, keep, i + 1)

(* the lists left after removing elements of seq *)
Shortened(seq) == {Sub(seq, keep, 1) : keep \in SUBSET (1..Len(seq))}

(* the granted record is of no member of the required list *)
Unrequired(g, R) == \A i \in 1..Len(R) : g.action # Permissions[R[i]]

(* C24: has_permissions is monotone.  A True result stays True after adding *)
(* granted records (in front or behind) and after removing required        *)
(* members; a False result stays False after removing granted records and  *)
(* after adding required members.  Granted records of no required member,  *)
(* strings outside the catalog included, never change the result, added or *)
(* removed.                                                                *)
C24_Monotone ==
    Returned("has_permissions") =>
        LET G == call.user_permissions
            R == call.required_permissions
        IN  /\ result = Return("True") =>
                  /\ \A H \in GrantedLists :
                        has_permissions(G \o H, R) /\ has_permissions(H \o G, R)
                  /\ \A R2 \in Shortened(R) : has_permissions(G, R2)
            /\ result = Return("False") =>
                  /\ \A G2 \in Shortened(G) : ~has_permissions(G2, R)
                  /\ \A R2 \in RequiredLists :
                        ~has_permissions(G, R \o R2) /\ ~has_permissions(G, R2 \o R)
            /\ \A H \in GrantedLists :
                  (\A j \in 1..Len(H) : Unrequired(H[j], R)) =>
                      /\ result = Return(PyBool(has_permissions(G \o H, R)))
                      /\ result = Return(PyBool(has_permissions(H \o G, R)))
            /\ \A keep \in SUBSET (1..Len(G)) :
                  (\A j \in (1..Len(G)) \ keep : Unrequired(G[j], R)) =>
                      result = Return(PyBool(has_permissions(Sub(G, keep, 1), R)))

(* read is required and granted; the list also holds a string that is no *)
(* member's value                                                        *)
C24_Witness ==
    /\ Returned("has_permissions")
    /\ call.user_permissions =
          << GrafanaPermission(_generate_permission_string("ALERT_GROUPS", "READ", TRUE)),
             GrafanaPermission(Permissions.ALERT_GROUPS_READ) >>
    /\ call.required_permissions = <<"ALERT_GROUPS_READ">>
    /\ result = Return("True")

(* C25: the two gates differ on an empty declared table.  The request     *)
(* gate tests only that the Required-Permissions Table is there: declared *)
(* and empty, it raises no AssertionError and returns True for every      *)
(* action and every principal, while an absent table raises it.  The      *)
(* object gate tests the truth value of the Object Policy Table: absent   *)
(* or empty, it returns True and runs no policy.                          *)
C25_EmptyTablesOfTheTwoGates ==
    /\ (/\ Returned("has_permission")
        /\ ActionResolves
        /\ HasPrincipal) =>
           /\ (Declares(RBAC_PERMISSIONS_ATTR) /\ view.rbac_permissions = <<>>) =>
                  result = Return("True")
           /\ ~Declares(RBAC_PERMISSIONS_ATTR) => result = Raise("AssertionError")
    /\ (/\ Returned("has_object_permission")
        /\ (~Declares(RBAC_OBJECT_PERMISSIONS_ATTR) \/ view.rbac_object_permissions = <<>>)) =>
           /\ result = Return("True")
           /\ invoked = <<>>

(* an APIView whose class declares the empty Required-Permissions Table; *)
(* the principal holds nothing                                           *)
C25_Witness ==
    /\ Returned("has_permission")
    /\ view.kind = "APIView"
    /\ given.by = "class"
    /\ Declares(RBAC_PERMISSIONS_ATTR)
    /\ view.rbac_permissions = <<>>
    /\ request.method = "GET"
    /\ HasPrincipal
    /\ users[request.user].permissions = <<>>
    /\ result = Return("True")

----------------------------------------------------------------------------
(* Vocabulary of the staff property *)

(* the request was authenticated by Basic or Session authentication *)
StaffAuthenticated ==
    request._authenticator \in {Authenticator("BasicAuthentication"),
                                Authenticator("SessionAuthentication")}

(* C26: IsStaff.has_permission returns False whenever the request was not *)
(* authenticated by Basic or Session authentication, whatever the staff   *)
(* flag of the user; when it was, it returns the staff flag of the user   *)
(* if there is a user and the user is authenticated, and False otherwise. *)
(* A user who is not staff never gets True.                               *)
C26_StaffOnly ==
    Returned("IsStaff") =>
        /\ ~StaffAuthenticated => result = Return("False")
        /\ (StaffAuthenticated /\ request.user # "" /\ users[request.user].is_authenticated) =>
               result = Return(PyBool(users[request.user].is_staff))
        /\ (StaffAuthenticated /\ (request.user = "" \/ ~users[request.user].is_authenticated)) =>
               result = Return("False")
        /\ (request.user = "" \/ ~users[request.user].is_staff) => result # Return("True")

(* a staff user authenticated by a token *)
C26_Witness ==
    /\ Returned("IsStaff")
    /\ request._authenticator = Authenticator("TokenAuthentication")
    /\ request.user = "user1"
    /\ users["user1"].is_authenticated
    /\ users["user1"].is_staff
    /\ result = Return("False")

====
